---- MODULE Spec2Model ----
(***************************************************************************)
(* A model of the trading Engine of barter-rs (src/src/engine/mod.rs):     *)
(* EngineBuilder, Engine::run with its Traders, the command inbox and the  *)
(* shared Portfolio mutex; and of the drawdown metrics                     *)
(* (src/src/statistic/metric/drawdown.rs): Drawdown, MaxDrawdown and       *)
(* AvgDrawdown.                                                            *)
(***************************************************************************)
EXTENDS Integers, Sequences, FiniteSets, TLC

\* Bounds of the model.
MaxTraders == 2
MaxQueue == 2
MaxClosed == 1
MaxValue == 2
MaxEquity == 3
MaxTime == 2
MaxUpdates == 4
MaxEpisodes == 4
MaxDuration == 3

\* ------------------------------------------------------------------------
\* Values

\* Option<T>: None is the empty tuple, Some(v) a one-element tuple.
None == <<>>

Some(v) == <<v>>

TraderIds == 1..MaxTraders

\* Message = String
Messages == {"reason"}

\* PositionIds a Command may carry: one that a Trader owns, one that none owns.
PositionIds == {"owned", "unknown"}

\* enum Command
Terminate(message) == <<"Terminate", message>>

ExitAllPositions == <<"ExitAllPositions">>

ExitPosition(position_id) == <<"ExitPosition", position_id>>

Command ==
    {Terminate(m) : m \in Messages} \cup {ExitAllPositions}
        \cup {ExitPosition(p) : p \in PositionIds}

\* The Trader owning a position (Commander's mapping PositionId -> Trader):
\* the set of owners, empty for a position no Trader owns.
Owners(position_id, ts) ==
    IF position_id = "owned" /\ ts # {} THEN {CHOOSE t \in ts : \A u \in ts : t <= u}
    ELSE {}

\* Uuid values: the Engine's engine_id and the other values Uuid::new_v4() draws.
EngineId == "engine_id"

Uuids == {EngineId, "fresh"}

\* The fields of EngineBuilder, in declaration order.
Fields ==
    <<"engine_id", "command_rx", "trader_commander", "statistics", "portfolio", "traders">>

FieldSet == {Fields[i] : i \in 1..Len(Fields)}

Values == 1..MaxValue

VARIABLES
    \* EngineBuilder
    builder,        \* the six Option fields
    supplied,       \* history: the last value a setter was called with, per field
    overwrote,      \* history: a setter replaced a different value supplied before
    built,          \* the result of build(): <<"pending">>, <<"Err", e>>, <<"Ok", engine>>
    \* Engine::run
    enginePc,       \* "spawn", "select", "lock", "summary", "return", "done", "panicked"
    traders,        \* self.traders: the Traders the Engine was built with
    traderPc,       \* each Trader's position in its event loop
    locked,         \* the Portfolio Mutex is locked (some MutexGuard is alive)
    poisoned,       \* the Portfolio Mutex is poisoned
    command_rx,     \* the commands buffered in the mpsc channel
    sendersAlive,   \* FALSE once every mpsc::Sender is dropped
    received,       \* history: what each command_rx.recv() returned (Option<Command>)
    exited,         \* closed Positions the Portfolio holds for engine_id
    statistics,     \* generate_summary's argument (Option) and whether print() ran
    log,            \* the info!/warn! lines written
    delivered,      \* Commands the trader_commander delivered, per Trader
    \* statistic::metric::drawdown
    starting_equity, \* history: the argument of Drawdown::init
    drawdown,       \* the live Drawdown
    observed,       \* history: the EquityPoints update() was called with
    returned,       \* what the last Drawdown::update returned (Option<Drawdown>)
    max_drawdown,   \* the MaxDrawdown
    avg_drawdown,   \* the AvgDrawdown
    submitted,      \* history: the Drawdowns MaxDrawdown::update was called with
    sums            \* history: count, sum of drawdowns and of durations given
                    \* to AvgDrawdown::update

builderVars == <<builder, supplied, overwrote, built>>

engineVars ==
    <<enginePc, traders, traderPc, locked, poisoned, command_rx, sendersAlive,
      received, exited, statistics, log, delivered>>

statVars ==
    <<starting_equity, drawdown, observed, returned, max_drawdown, avg_drawdown,
      submitted, sums>>

vars == <<builderVars, engineVars, statVars>>

\* ------------------------------------------------------------------------
\* statistic::metric::drawdown

\* f64 values, kept exact: the fraction n/d in lowest terms with d > 0, so that
\* equal values are equal tuples (0.0 and -0.0 are both <<0, 1>>).
Abs(x) == IF x < 0 THEN -x ELSE x

RECURSIVE GCD(_, _)
GCD(a, b) == IF b = 0 THEN a ELSE GCD(b, a % b)

F64(n, d) ==
    LET s == IF d < 0 THEN -1 ELSE 1
        g == GCD(Abs(n), Abs(d))
    IN  <<(s * n) \div g, (s * d) \div g>>

F64Neg(a) == <<-a[1], a[2]>>

F64Add(a, b) == F64(a[1] * b[2] + b[1] * a[2], a[2] * b[2])

F64Sub(a, b) == F64Add(a, F64Neg(b))

F64Div(a, b) == F64(a[1] * b[2], a[2] * b[1])

F64Abs(a) == <<Abs(a[1]), a[2]>>

F64Gt(a, b) == a[1] * b[2] > b[1] * a[2]

F64Max(a, b) == IF F64Gt(b, a) THEN b ELSE a

F64Min(a, b) == IF F64Gt(a, b) THEN b ELSE a

Zero == F64(0, 1)

\* struct Range (statistic::dispersion)
RangeDefault == [activated |-> FALSE, high |-> Zero, low |-> Zero]

\* Range::update
RangeUpdate(self, value) ==
    IF ~self.activated
    THEN [activated |-> TRUE, high |-> value, low |-> value]
    ELSE [self EXCEPT !.high = F64Max(self.high, value),
                      !.low = F64Min(self.low, value)]

\* Mutant of RangeCalculate: the delta is taken as low - high.
RangeCalculate_LowMinusHigh(self) == F64Sub(self.low, self.high)

\* Range::calculate, the width of the range: Drawdown::calculate negates it to
\* get (range_low - range_high).
RangeCalculate(self) == F64Sub(self.high, self.low)

\* Utc::now() at construction; the timestamps of the EquityPoints are not
\* earlier.
Now == 0

\* impl Default for Drawdown
DrawdownDefault ==
    [equity_range |-> RangeDefault, drawdown |-> Zero,
     start_timestamp |-> Now, duration |-> 0]

\* Drawdown::init
DrawdownInit(equity) ==
    [equity_range |-> [activated |-> TRUE, high |-> equity, low |-> equity],
     drawdown |-> Zero, start_timestamp |-> Now, duration |-> 0]

\* Mutant of IsWaitingForPeak: a drawdown is always taken to be under way.
IsWaitingForPeak_Never(self) == FALSE

\* Mutant of IsWaitingForPeak: waiting is read off the equity range being flat.
IsWaitingForPeak_FlatRange(self) == self.equity_range.high = self.equity_range.low

\* Drawdown::is_waiting_for_peak
IsWaitingForPeak(self) == self.drawdown = Zero

\* Mutant of DrawdownCalculate: the decline is taken relative to the trough.
DrawdownCalculate_OverTrough(self) ==
    F64Div(F64Neg(RangeCalculate(self.equity_range)), self.equity_range.low)

\* Drawdown::calculate
DrawdownCalculate(self) ==
    F64Div(F64Neg(RangeCalculate(self.equity_range)), self.equity_range.high)

\* Mutant of ExceedsPeak: an equity equal to the peak counts as a new peak.
ExceedsPeak_OrTies(self, current) == ~F64Gt(self.equity_range.high, current.equity)

\* Drawdown::update, the second component of its match: current.equity >
\* self.equity_range.high
ExceedsPeak(self, current) == F64Gt(current.equity, self.equity_range.high)

\* Mutant of PeakRaised: the new peak is not recorded.
PeakRaised_ForgetsPeak(self, current) == [self |-> self, result |-> None]

\* Drawdown::update, arm (true, true): a) No current drawdown, waiting for
\* next equity peak (waiting for B)
PeakRaised(self, current) ==
    [self |-> [self EXCEPT !.equity_range.high = current.equity],
     result |-> None]

\* Mutant of DrawdownStarted: the lower equity is written to the peak instead
\* of the trough.
DrawdownStarted_WritesHigh(self, current) ==
    LET started == [self EXCEPT !.start_timestamp = current.timestamp,
                                !.equity_range.high = current.equity]
    IN  [self |-> [started EXCEPT !.drawdown = DrawdownCalculate(started)],
         result |-> None]

\* Mutant of DrawdownStarted: the start of the episode is not recorded.
DrawdownStarted_KeepsStart(self, current) ==
    LET started == [self EXCEPT !.equity_range.low = current.equity]
    IN  [self |-> [started EXCEPT !.drawdown = DrawdownCalculate(started)],
         result |-> None]

\* Drawdown::update, arm (true, false): b) Start of new drawdown - previous
\* equity point set peak and current equity is lower
DrawdownStarted(self, current) ==
    LET started == [self EXCEPT !.start_timestamp = current.timestamp,
                                !.equity_range.low = current.equity]
    IN  [self |-> [started EXCEPT !.drawdown = DrawdownCalculate(started)],
         result |-> None]

\* Mutant of DrawdownContinued: the trough follows the latest equity instead of
\* the lowest one.
DrawdownContinued_LowFollows(self, current) ==
    LET continued ==
            [self EXCEPT
                !.duration = current.timestamp - self.start_timestamp,
                !.equity_range.low = current.equity]
    IN  [self |-> [continued EXCEPT !.drawdown = DrawdownCalculate(continued)],
         result |-> None]

\* Drawdown::update, arm (false, false): c) Continuation of drawdown - equity
\* lower than most recent peak
DrawdownContinued(self, current) ==
    LET continued ==
            [self EXCEPT
                !.duration = current.timestamp - self.start_timestamp,
                !.equity_range = RangeUpdate(self.equity_range, current.equity)]
    IN  [self |-> [continued EXCEPT !.drawdown = DrawdownCalculate(continued)],
         result |-> None]

\* Mutant of DrawdownEnded: the finished episode lasts until the observation
\* that ends it.
DrawdownEnded_LastsUntilClose(self, current) ==
    [self |-> [self EXCEPT !.drawdown = Zero,
                           !.duration = 0,
                           !.equity_range.high = current.equity],
     result |-> Some([self EXCEPT
                         !.duration = current.timestamp - self.start_timestamp])]

\* Mutant of DrawdownEnded: the duration of the finished episode is carried
\* into the next one.
DrawdownEnded_KeepsDuration(self, current) ==
    [self |-> [self EXCEPT !.drawdown = Zero,
                           !.equity_range.high = current.equity],
     result |-> Some(self)]

\* Drawdown::update, arm (false, true): d) End of drawdown - equity has reached
\* new peak (enters A)
DrawdownEnded(self, current) ==
    LET finished_drawdown ==
            [equity_range |-> self.equity_range,
             drawdown |-> self.drawdown,
             start_timestamp |-> self.start_timestamp,
             duration |-> self.duration]
    IN  [self |-> [self EXCEPT !.drawdown = Zero,
                               !.duration = 0,
                               !.equity_range.high = current.equity],
         result |-> Some(finished_drawdown)]

\* Drawdown::update: the Drawdown afterwards and the Option<Drawdown> returned.
DrawdownUpdate(self, current) ==
    LET waiting == IsWaitingForPeak(self)
        higher == ExceedsPeak(self, current)
    IN  CASE waiting /\ higher -> PeakRaised(self, current)
          [] waiting /\ ~higher -> DrawdownStarted(self, current)
          [] ~waiting /\ ~higher -> DrawdownContinued(self, current)
          [] ~waiting /\ higher -> DrawdownEnded(self, current)

\* MaxDrawdown::init
MaxDrawdownInit == [drawdown |-> DrawdownDefault]

\* Mutant of MaxDrawdownUpdate: a Drawdown of equal magnitude replaces the
\* stored one.
MaxDrawdownUpdate_TiesReplace(self, next_drawdown) ==
    IF F64Gt(F64Abs(self.drawdown.drawdown), F64Abs(next_drawdown.drawdown))
    THEN self
    ELSE [self EXCEPT !.drawdown = next_drawdown]

\* Mutant of MaxDrawdownUpdate: the latest Drawdown is stored.
MaxDrawdownUpdate_KeepsLatest(self, next_drawdown) ==
    [self EXCEPT !.drawdown = next_drawdown]

\* MaxDrawdown::update
MaxDrawdownUpdate(self, next_drawdown) ==
    IF F64Gt(F64Abs(next_drawdown.drawdown), F64Abs(self.drawdown.drawdown))
    THEN [self EXCEPT !.drawdown = next_drawdown]
    ELSE self

\* i64 division, which truncates toward zero.
I64Div(a, b) == IF (a < 0) = (b < 0) THEN Abs(a) \div Abs(b) ELSE -(Abs(a) \div Abs(b))

\* welford_online::calculate_mean::<f64>
CalculateMeanF64(prev_mean, next_value, count) ==
    F64Add(prev_mean, F64Div(F64Sub(next_value, prev_mean), count))

\* welford_online::calculate_mean::<i64>
CalculateMeanI64(prev_mean, next_value, count) ==
    prev_mean + I64Div(next_value - prev_mean, count)

\* AvgDrawdown::init (Default). Durations are counted in whole milliseconds.
AvgDrawdownInit ==
    [count |-> 0, mean_drawdown |-> Zero, mean_duration |-> 0,
     mean_duration_milliseconds |-> 0]

\* Mutant of AvgDrawdownUpdate: the means are divided by the count of the next
\* update.
AvgDrawdownUpdate_DividesByNext(self, next_drawdown) ==
    LET count == self.count + 1
        mean_duration_milliseconds ==
            CalculateMeanI64(self.mean_duration_milliseconds,
                             next_drawdown.duration, count + 1)
    IN  [count |-> count,
         mean_drawdown |->
             CalculateMeanF64(self.mean_drawdown, next_drawdown.drawdown,
                              F64(count + 1, 1)),
         mean_duration |-> mean_duration_milliseconds,
         mean_duration_milliseconds |-> mean_duration_milliseconds]

\* AvgDrawdown::update
AvgDrawdownUpdate(self, next_drawdown) ==
    LET count == self.count + 1
        mean_duration_milliseconds ==
            CalculateMeanI64(self.mean_duration_milliseconds,
                             next_drawdown.duration, count)
    IN  [count |-> count,
         mean_drawdown |->
             CalculateMeanF64(self.mean_drawdown, next_drawdown.drawdown, F64(count, 1)),
         mean_duration |-> mean_duration_milliseconds,
         mean_duration_milliseconds |-> mean_duration_milliseconds]

\* The equities, timestamps and durations (milliseconds) of the model.
Equities == {F64(e, 1) : e \in 1..MaxEquity}

Timestamps == Now..MaxTime

EquityPoints == [equity : Equities, timestamp : Timestamps]

\* Completed Drawdowns as Drawdown::update returns them, with durations in `ds`.
Episodes(ds) ==
    {[equity_range |-> [activated |-> TRUE, high |-> r[1], low |-> r[2]],
      drawdown |-> F64Div(F64Sub(r[2], r[1]), r[1]),
      start_timestamp |-> Now, duration |-> d] :
        r \in {e \in Equities \X Equities : F64Gt(e[1], e[2])}, d \in ds}

InitStatistic(equity) ==
    /\ starting_equity = equity
    /\ drawdown = DrawdownInit(equity)
    /\ observed = <<>>
    /\ returned = None
    /\ max_drawdown = MaxDrawdownInit
    /\ avg_drawdown = AvgDrawdownInit
    /\ submitted = <<>>
    /\ sums = [count |-> 0, drawdown |-> Zero, duration |-> 0]

\* ------------------------------------------------------------------------
\* EngineBuilder

\* EngineBuilder::new
BuilderNew == [f \in FieldSet |-> None]

\* The setters engine_id(value) .. traders(value): Self { field: Some(value), ..self }
BuilderSet(self, field, value) == [self EXCEPT ![field] = Some(value)]

\* Mutant of BuilderBuild: the last field is not checked, an Engine without
\* Traders is built instead.
BuilderBuild_TradersOptional(self) ==
    IF \E f \in FieldSet \ {"traders"} : self[f] = None
    THEN <<"Err", "BuilderIncomplete">>
    ELSE <<"Ok", [f \in FieldSet |-> IF self[f] = None THEN 0 ELSE self[f][1]]>>

\* EngineBuilder::build: each field in turn .ok_or(BuilderIncomplete)?
BuilderBuild(self) ==
    IF self["engine_id"] = None THEN <<"Err", "BuilderIncomplete">>
    ELSE IF self["command_rx"] = None THEN <<"Err", "BuilderIncomplete">>
    ELSE IF self["trader_commander"] = None THEN <<"Err", "BuilderIncomplete">>
    ELSE IF self["statistics"] = None THEN <<"Err", "BuilderIncomplete">>
    ELSE IF self["portfolio"] = None THEN <<"Err", "BuilderIncomplete">>
    ELSE IF self["traders"] = None THEN <<"Err", "BuilderIncomplete">>
    ELSE <<"Ok", [f \in FieldSet |-> self[f][1]]>>

InitBuilder ==
    /\ builder = BuilderNew
    /\ supplied = [f \in FieldSet |-> None]
    /\ overwrote = FALSE
    /\ built = <<"pending">>

\* A caller invokes one setter on the builder it still owns.
Supply(field, value) ==
    /\ built = <<"pending">>
    /\ builder' = BuilderSet(builder, field, value)
    /\ supplied' = [supplied EXCEPT ![field] = Some(value)]
    /\ overwrote' = (overwrote \/ supplied[field] \notin {None, Some(value)})
    /\ UNCHANGED <<built, engineVars, statVars>>

\* A caller invokes build(), which consumes the builder.
Build ==
    /\ built = <<"pending">>
    /\ built' = BuilderBuild(builder)
    /\ UNCHANGED <<builder, supplied, overwrote, engineVars, statVars>>

\* ------------------------------------------------------------------------
\* Engine::run

InCritical == {"market", "order", "fill"}

Stopped == {"finished", "failed"}

\* The loop is left: the code after line 177 runs.
PastLoop == {"lock", "summary", "return", "done"}

InitEngine ==
    /\ enginePc = "spawn"
    /\ traders \in {1..n : n \in 0..MaxTraders}
    /\ traderPc = [t \in TraderIds |-> "unspawned"]
    /\ locked = FALSE
    /\ poisoned = FALSE
    /\ command_rx = <<>>
    /\ sendersAlive \in BOOLEAN
    /\ received = <<>>
    /\ exited = 0
    /\ statistics = [summary |-> None, printed |-> FALSE]
    /\ log = {}
    /\ delivered = [t \in TraderIds |-> {}]

Init == InitBuilder /\ InitEngine /\ InitStatistic(F64(1, 1))

\* ---- the command inbox (tokio mpsc channel), driven by remote senders

\* Sender::send: the command is buffered while the channel has capacity and the
\* Receiver (a field of the running Engine) is alive.
Send(command) ==
    /\ sendersAlive
    /\ enginePc \notin {"done", "panicked"}
    /\ Len(command_rx) < MaxQueue
    /\ command_rx' = Append(command_rx, command)
    /\ UNCHANGED <<enginePc, traders, traderPc, locked, poisoned, sendersAlive,
                   received, exited, statistics, log, delivered, builderVars, statVars>>

\* The last Sender is dropped.
DropSenders ==
    /\ sendersAlive
    /\ sendersAlive' = FALSE
    /\ UNCHANGED <<enginePc, traders, traderPc, locked, poisoned, command_rx,
                   received, exited, statistics, log, delivered, builderVars, statVars>>

\* ---- Trader::run, one per spawned task

\* Mutex::lock by a Trader: blocks while locked; a poisoned Mutex still hands
\* out its guard (into_inner).
TraderLock(t, from, to) ==
    /\ t \in traders
    /\ traderPc[t] = from
    /\ ~locked
    /\ locked' = TRUE
    /\ traderPc' = [traderPc EXCEPT ![t] = to]
    /\ UNCHANGED <<enginePc, traders, poisoned, command_rx, sendersAlive,
                   received, exited, statistics, log, delivered, builderVars, statVars>>

\* The guard is dropped at the end of the one Portfolio call.
TraderUnlock(t, from, to, closed) ==
    /\ t \in traders
    /\ traderPc[t] = from
    /\ locked' = FALSE
    /\ traderPc' = [traderPc EXCEPT ![t] = to]
    /\ exited' = exited + closed
    /\ UNCHANGED <<enginePc, traders, poisoned, command_rx, sendersAlive,
                   received, statistics, log, delivered, builderVars, statVars>>

\* Step 1: the data source signals exhaustion, the loop exits.
TraderExhausted(t) ==
    /\ t \in traders
    /\ traderPc[t] = "top"
    /\ traderPc' = [traderPc EXCEPT ![t] = "finished"]
    /\ UNCHANGED <<enginePc, traders, locked, poisoned, command_rx, sendersAlive,
                   received, exited, statistics, log, delivered, builderVars, statVars>>

\* Steps 1-3: continue, pull the next market event, lock the Portfolio for
\* update_from_market.
TraderMarketLock(t) == TraderLock(t, "top", "market")

\* Step 3-4: update_from_market returns; either back to the loop top, or the
\* strategy yields a signal and generate_order is next.
TraderMarketUpdate(t) ==
    \E to \in {"top", "order_wait"} : TraderUnlock(t, "market", to, 0)

\* Step 4: lock the Portfolio for generate_order.
TraderOrderLock(t) == TraderLock(t, "order_wait", "order")

\* Steps 4-5: generate_order returns no order (loop top) or an order, which the
\* execution adapter turns into a fill.
TraderGenerateOrder(t) ==
    \E to \in {"top", "fill_wait"} : TraderUnlock(t, "order", to, 0)

\* Step 6: lock the Portfolio for update_from_fill.
TraderFillLock(t) == TraderLock(t, "fill_wait", "fill")

\* Steps 6-7: update_from_fill returns; the fill may have closed a Position.
TraderFillUpdate(t) ==
    \E closed \in {0, 1} :
        /\ exited + closed <= MaxClosed
        /\ TraderUnlock(t, "fill", "top", closed)

\* A Trader panics inside a Portfolio call: its guard is dropped while
\* unwinding, which poisons the Mutex; its JoinHandle resolves.
TraderFail(t) ==
    /\ t \in traders
    /\ traderPc[t] \in InCritical
    /\ traderPc' = [traderPc EXCEPT ![t] = "failed"]
    /\ locked' = FALSE
    /\ poisoned' = TRUE
    /\ UNCHANGED <<enginePc, traders, command_rx, sendersAlive,
                   received, exited, statistics, log, delivered, builderVars, statVars>>

TraderNext(t) ==
    \/ TraderExhausted(t)
    \/ TraderMarketLock(t)
    \/ TraderMarketUpdate(t)
    \/ TraderOrderLock(t)
    \/ TraderGenerateOrder(t)
    \/ TraderFillLock(t)
    \/ TraderFillUpdate(t)
    \/ TraderFail(t)

\* ---- Engine::run

\* Mutant of TradersStopped: a Trader task that failed never lets the join
\* resolve.
TradersStopped_FailureHangsJoin == \A t \in traders : traderPc[t] = "finished"

\* join_all over the JoinHandles is ready: every spawned Trader task has ended
\* (immediately so for an empty Vec of Traders).
TradersStopped == \A t \in traders : traderPc[t] \in Stopped

\* command_rx.recv() is ready: a command is buffered, or the channel is closed
\* and drained.
RecvReady == command_rx # <<>> \/ ~sendersAlive

\* What recv() yields when ready: Some(first buffered command), else None.
Recv == IF command_rx # <<>> THEN Some(Head(command_rx)) ELSE None

\* Mutant of OnCommand: a command other than Terminate is skipped and the loop
\* goes on to the next one.
OnCommand_OthersSkipped(command) ==
    IF command[1] = "Terminate" THEN "break" ELSE "continue"

\* Mutant of OnCommand: the Terminate arm does not break, the loop goes on.
OnCommand_TerminateKeepsWaiting(command) ==
    IF command[1] = "Terminate" THEN "continue" ELSE "todo"

\* match command { Terminate(message) => break, _ => todo!() }
OnCommand(command) == IF command[1] = "Terminate" THEN "break" ELSE "todo"

\* Mutant of OnRecv: a closed channel is treated as a failure.
OnRecv_ClosedIsFatal(command) ==
    IF command # None THEN OnCommand(command[1]) ELSE "todo"

\* if let Some(command) = command { match .. } else { break }
OnRecv(command) == IF command # None THEN OnCommand(command[1]) ELSE "break"

\* Where run() goes on: break leaves the loop for line 204, todo!() panics,
\* anything else would fall through to the next iteration of the loop.
After(flow) ==
    CASE flow = "break" -> "lock"
      [] flow = "todo" -> "panicked"
      [] OTHER -> "select"

\* Lines 142-147: every Trader is spawned on its own task.
EngineSpawn ==
    /\ enginePc = "spawn"
    /\ enginePc' = "select"
    /\ traderPc' = [t \in TraderIds |-> IF t \in traders THEN "top" ELSE "unspawned"]
    /\ UNCHANGED <<traders, locked, poisoned, command_rx, sendersAlive,
                   received, exited, statistics, log, delivered, builderVars, statVars>>

\* select! arm 1 (lines 152-154): all Traders stopped, break.
EngineTradersStopped ==
    /\ enginePc = "select"
    /\ TradersStopped
    /\ enginePc' = After("break")
    /\ UNCHANGED <<traders, traderPc, locked, poisoned, command_rx, sendersAlive,
                   received, exited, statistics, log, delivered, builderVars, statVars>>

\* select! arm 2 (lines 156-174): recv() resolved and its result is handled.
\* No arm hands anything to trader_commander.
EngineRecv ==
    /\ enginePc = "select"
    /\ RecvReady
    /\ received' = Append(received, Recv)
    /\ command_rx' = IF command_rx # <<>> THEN Tail(command_rx) ELSE command_rx
    /\ enginePc' = After(OnRecv(Recv))
    /\ UNCHANGED <<traders, traderPc, locked, poisoned, sendersAlive,
                   exited, statistics, log, delivered, builderVars, statVars>>

\* Mutant of EngineLock: the result of lock() is unwrapped, so a poisoned Mutex
\* panics.
EngineLock_UnwrapsPoison ==
    /\ enginePc = "lock"
    /\ ~locked
    /\ locked' = ~poisoned
    /\ enginePc' = IF poisoned THEN "panicked" ELSE "summary"
    /\ UNCHANGED <<traders, traderPc, poisoned, command_rx, sendersAlive,
                   received, exited, statistics, log, delivered, builderVars, statVars>>

\* Mutant of EngineLock: the Portfolio is read without waiting for the Mutex.
EngineLock_NoWait ==
    /\ enginePc = "lock"
    /\ locked' = TRUE
    /\ log' = IF poisoned THEN log \cup {"Mutex poisoned"} ELSE log
    /\ enginePc' = "summary"
    /\ UNCHANGED <<traders, traderPc, poisoned, command_rx, sendersAlive,
                   received, exited, statistics, delivered, builderVars, statVars>>

\* Lines 205-211: self.portfolio.lock(), a poisoned Mutex is warned about and
\* its guard taken with into_inner().
EngineLock ==
    /\ enginePc = "lock"
    /\ ~locked
    /\ locked' = TRUE
    /\ log' = IF poisoned THEN log \cup {"Mutex poisoned"} ELSE log
    /\ enginePc' = "summary"
    /\ UNCHANGED <<traders, traderPc, poisoned, command_rx, sendersAlive,
                   received, exited, statistics, delivered, builderVars, statVars>>

\* Portfolio::get_exited_positions(portfolio_id): the closed Positions stored
\* under that id, None when there are none.
GetExitedPositions(portfolio_id, closed) ==
    IF portfolio_id = EngineId /\ closed > 0 THEN Some(closed) ELSE None

\* Mutant of Summarise: a missing result is summarised as an empty one.
Summarise_AlwaysGenerates(id) ==
    /\ statistics' = [summary |-> Some(0), printed |-> TRUE]
    /\ UNCHANGED log

\* Lines 214-220: the match on get_exited_positions(&Uuid::new_v4()).
Summarise(id) ==
    LET positions == GetExitedPositions(id, exited) IN
    IF positions = None
    THEN /\ log' = log \cup {"no TradingSummary available"}
         /\ UNCHANGED statistics
    ELSE /\ statistics' = [summary |-> positions, printed |-> TRUE]
         /\ UNCHANGED log

EngineSummary ==
    /\ enginePc = "summary"
    /\ \E id \in Uuids : Summarise(id)
    /\ enginePc' = "return"
    /\ UNCHANGED <<traders, traderPc, locked, poisoned, command_rx, sendersAlive,
                   received, exited, delivered, builderVars, statVars>>

\* Line 221: run() returns, the MutexGuard goes out of scope.
EngineReturn ==
    /\ enginePc = "return"
    /\ locked' = FALSE
    /\ enginePc' = "done"
    /\ UNCHANGED <<traders, traderPc, poisoned, command_rx, sendersAlive,
                   received, exited, statistics, log, delivered, builderVars, statVars>>

EngineNext ==
    \/ EngineSpawn
    \/ EngineTradersStopped
    \/ EngineRecv
    \/ EngineLock
    \/ EngineSummary
    \/ EngineReturn

Next ==
    \/ \E c \in Command : Send(c)
    \/ DropSenders
    \/ \E t \in TraderIds : TraderNext(t)
    \/ EngineNext

Spec == Init /\ [][Next]_vars

\* Fair scheduling: the Engine task and every Trader task keep being run.
FairSpec == Spec /\ WF_vars(EngineNext) /\ \A t \in TraderIds : WF_vars(TraderNext(t))

\* The builder alone.
NextBuilder ==
    \/ \E f \in FieldSet, v \in Values : Supply(f, v)
    \/ Build

BuilderSpec == Init /\ [][NextBuilder]_vars

\* ------------------------------------------------------------------------
\* The drawdown metrics, driven by their callers

\* The Engine of the metric specifications is not run: no Traders, spawn not
\* reached.
InitEngineIdle == InitEngine /\ traders = {} /\ sendersAlive

\* max_drawdown.update(&next_drawdown)
MaxSubmit(next_drawdown) ==
    /\ max_drawdown' = MaxDrawdownUpdate(max_drawdown, next_drawdown)
    /\ submitted' = Append(submitted, next_drawdown)

\* avg_drawdown.update(&next_drawdown)
AvgSubmit(next_drawdown) ==
    /\ avg_drawdown' = AvgDrawdownUpdate(avg_drawdown, next_drawdown)
    /\ sums' = [count |-> sums.count + 1,
                drawdown |-> F64Add(sums.drawdown, next_drawdown.drawdown),
                duration |-> sums.duration + next_drawdown.duration]

\* The timestamp of the latest EquityPoint.
LastTimestamp == IF observed = <<>> THEN Now ELSE observed[Len(observed)].timestamp

\* The owner of the metrics gives a completed Drawdown, and nothing else, to
\* both aggregators.
Feed(result) ==
    IF result = None
    THEN UNCHANGED <<max_drawdown, avg_drawdown, submitted, sums>>
    ELSE MaxSubmit(result[1]) /\ AvgSubmit(result[1])

\* drawdown.update(&current) on the next EquityPoint of the stream.
Observe(current) ==
    /\ Len(observed) < MaxUpdates
    /\ current.timestamp >= LastTimestamp
    /\ LET updated == DrawdownUpdate(drawdown, current)
       IN  /\ drawdown' = updated.self
           /\ returned' = updated.result
           /\ Feed(updated.result)
    /\ observed' = Append(observed, current)
    /\ UNCHANGED <<starting_equity, builderVars, engineVars>>

InitDrawdown ==
    InitBuilder /\ InitEngineIdle /\ \E equity \in Equities : InitStatistic(equity)

NextDrawdown == \E current \in EquityPoints : Observe(current)

DrawdownSpec == InitDrawdown /\ [][NextDrawdown]_vars

\* MaxDrawdown alone, given any completed Drawdowns.
MaxUpdate(next_drawdown) ==
    /\ Len(submitted) < MaxEpisodes
    /\ MaxSubmit(next_drawdown)
    /\ UNCHANGED <<starting_equity, drawdown, observed, returned, avg_drawdown, sums,
                   builderVars, engineVars>>

InitAggregate == InitBuilder /\ InitEngineIdle /\ InitStatistic(F64(1, 1))

NextMax == \E d \in Episodes({0, MaxDuration}) : MaxUpdate(d)

MaxDrawdownSpec == InitAggregate /\ [][NextMax]_vars

\* AvgDrawdown alone, given any completed Drawdowns.
AvgUpdate(next_drawdown) ==
    /\ sums.count < MaxEpisodes
    /\ AvgSubmit(next_drawdown)
    /\ UNCHANGED <<starting_equity, drawdown, observed, returned, max_drawdown,
                   submitted, builderVars, engineVars>>

NextAvg == \E d \in Episodes(0..MaxDuration) : AvgUpdate(d)

AvgDrawdownSpec == InitAggregate /\ [][NextAvg]_vars

\* ------------------------------------------------------------------------
\* Properties

Last(seq) == seq[Len(seq)]

\* This step is a command_rx.recv() that returned `result`.
RecvStep(result) == Len(received') = Len(received) + 1 /\ Last(received') = result

TerminateCommands == {Terminate(m) : m \in Messages}

\* The last recv() returned `command`.
LastReceived(command) == received # <<>> /\ Last(received) = Some(command)

Running(t) == t \in traders /\ traderPc[t] \notin Stopped \cup {"unspawned"}

NoSummaryLine == "no TradingSummary available"

\* C1: under fair scheduling, once the Engine is in its arbitration loop and
\* all Traders have stopped, or Terminate is the command recv() yields, or the
\* channel is closed and drained, run() leaves the loop for the summary step.
C1_ResolvesOnFirstCause ==
    (/\ enginePc = "select"
     /\ \/ TradersStopped
        \/ command_rx # <<>> /\ Head(command_rx) \in TerminateCommands
        \/ command_rx = <<>> /\ ~sendersAlive)
        ~> (enginePc \in PastLoop)

\* C2: a recv() that returns Terminate takes the Engine out of the loop to the
\* Portfolio lock in that very step, whatever the Traders are doing and without
\* touching them; from there on every step of run() waits for the Mutex at
\* most, never for a Trader to stop.
C2_TerminateStopsWaiting ==
    /\ [][\A c \in TerminateCommands :
            RecvStep(Some(c)) => enginePc' = "lock" /\ traderPc' = traderPc]_vars
    /\ [](/\ enginePc = "lock" /\ ~locked => ENABLED EngineLock
          /\ enginePc = "summary" => ENABLED EngineSummary
          /\ enginePc = "return" => ENABLED EngineReturn)

\* The run ended after Terminate while a Trader was still in its loop.
C2_Witness ==
    /\ enginePc = "done"
    /\ received = <<Some(Terminate("reason"))>>
    /\ \E t \in TraderIds : Running(t)

\* C3: a recv() that returns None (channel closed) moves the Engine exactly as
\* the Terminate arm does from the same state: to the Portfolio lock, with no
\* panic, nothing logged and nothing else changed.
C3_ClosedLikeTerminate ==
    [][RecvStep(None) =>
        /\ \A c \in TerminateCommands : enginePc' = After(OnRecv(Some(c)))
        /\ enginePc' # "panicked"
        /\ <<traderPc', locked', poisoned', exited', statistics', log', delivered'>>
             = <<traderPc, locked, poisoned, exited, statistics, log, delivered>>]_vars

\* The run ended after recv() returned None.
C3_Witness == enginePc = "done" /\ received = <<None>>

\* C4: at most one party, Trader or Engine, is inside a Portfolio call, and it
\* holds the Mutex.
C4_PortfolioExclusive ==
    LET inside ==
            Cardinality({t \in TraderIds : traderPc[t] \in InCritical})
                + (IF enginePc \in {"summary", "return"} THEN 1 ELSE 0)
    IN  inside <= 1 /\ (inside = 1 <=> locked)

\* A Trader is inside a Portfolio call while the Engine and another Trader
\* wait for the Mutex.
C4_Witness ==
    /\ enginePc = "lock"
    /\ \E t, u \in traders :
        t # u /\ traderPc[t] \in InCritical /\ traderPc[u] = "fill_wait"

\* C5: when the summary step has run, closed Positions of the run were
\* summarised and printed if there are any, and otherwise generate_summary was
\* not called and the no-summary line was logged.
C5_SummaryIffClosed ==
    enginePc = "return" =>
        IF exited > 0
        THEN statistics = [summary |-> Some(exited), printed |-> TRUE]
             /\ NoSummaryLine \notin log
        ELSE statistics = [summary |-> None, printed |-> FALSE]
             /\ NoSummaryLine \in log

\* C6: once the Engine has received Terminate, every Trader still running has
\* been handed the Terminate command.
C6_StopSignalPropagated ==
    \A c \in TerminateCommands :
        LastReceived(c) => \A t \in TraderIds : Running(t) => c \in delivered[t]

\* C7: once the Engine has received ExitPosition(p) for a position a Trader
\* owns, the command has been delivered to that Trader and to no other.
C7_ExitPositionRouted ==
    \A p \in PositionIds :
        LastReceived(ExitPosition(p)) /\ Owners(p, traders) # {} =>
            \A t \in traders :
                ExitPosition(p) \in delivered[t] <=> t \in Owners(p, traders)

\* C8: an ExitPosition(p) for a position no Trader owns does not abort run().
C8_UnknownPositionNotFatal ==
    \A p \in PositionIds :
        LastReceived(ExitPosition(p)) /\ Owners(p, traders) = {} =>
            enginePc # "panicked"

\* C9: build() returns Ok exactly when every one of the six fields has been
\* supplied, the Engine then holds the last value supplied for each field, and
\* otherwise the result is the BuilderIncomplete error.
C9_BuildIffComplete ==
    built # <<"pending">> =>
        IF \A f \in FieldSet : supplied[f] # None
        THEN built = <<"Ok", [f \in FieldSet |-> supplied[f][1]]>>
        ELSE built = <<"Err", "BuilderIncomplete">>

\* build() returned an Engine after a setter had replaced a value supplied
\* before, the fields holding different values.
C9_Witness ==
    /\ built[1] = "Ok"
    /\ overwrote
    /\ built[2]["engine_id"] # built[2]["traders"]

\* How far run() has got: the position of a program point in its text.
Rank(pc) ==
    LET order == <<"spawn", "select", "lock", "summary", "return", "done">>
    IN  IF \E i \in 1..Len(order) : order[i] = pc
        THEN CHOOSE i \in 1..Len(order) : order[i] = pc
        ELSE Len(order) + 1

\* A run with no Traders whose inbox is closed and has held no command.
EmptyRun ==
    /\ traders = {}
    /\ ~sendersAlive
    /\ command_rx = <<>>
    /\ received \in {<<>>, <<None>>}

\* C10: a run with no Traders whose inbox is closed and empty never panics and
\* never blocks: until run() has returned some step of it is enabled (in the
\* arbitration loop both select! arms are), every step takes it forward in its
\* text, so it ends; when it has ended the no-summary line is logged and no
\* summary was generated.
C10_EmptyRunTerminates ==
    /\ [](EmptyRun =>
            /\ enginePc # "panicked"
            /\ enginePc # "done" => ENABLED EngineNext
            /\ enginePc = "select" =>
                    ENABLED EngineTradersStopped /\ ENABLED EngineRecv
            /\ enginePc = "done" =>
                    /\ NoSummaryLine \in log
                    /\ statistics = [summary |-> None, printed |-> FALSE])
    /\ [][EmptyRun /\ enginePc' # enginePc => Rank(enginePc') > Rank(enginePc)]_vars

\* Such a run has ended through the recv() arm.
C10_Witness ==
    /\ enginePc = "done"
    /\ traders = {}
    /\ received = <<None>>
    /\ NoSummaryLine \in log

\* ------------------------------------------------------------------------
\* Properties of the drawdown metrics

\* This step is a Drawdown::update.
UpdateStep == Len(observed') = Len(observed) + 1

\* The live Drawdown is in an active episode.
Active(self) == self.drawdown # Zero

\* C11: Drawdown::update returns Some exactly when, before the call, the
\* drawdown value is non-zero and the new equity is greater than
\* equity_range.high; in every other case it returns None.
C11_SomeIffActiveAndHigher ==
    [][UpdateStep =>
        ((returned' # None) <=>
            (/\ drawdown.drawdown # Zero
             /\ F64Gt(Last(observed').equity, drawdown.equity_range.high)))]_vars

\* An update has returned a completed Drawdown, after one that returned None.
C11_Witness == returned # None /\ Len(observed) >= 2 /\ Len(submitted) = 1

\* C12: when update closes an episode, the returned Drawdown carries the
\* equity_range, drawdown, start_timestamp and duration held immediately before
\* the call, and the live Drawdown afterwards has drawdown 0, duration 0 and
\* equity_range.high equal to the new equity, with equity_range.low and
\* start_timestamp unchanged.
C12_CloseSnapshotsAndResets ==
    [][UpdateStep /\ returned' # None =>
        /\ returned' =
               Some([equity_range |-> drawdown.equity_range,
                     drawdown |-> drawdown.drawdown,
                     start_timestamp |-> drawdown.start_timestamp,
                     duration |-> drawdown.duration])
        /\ drawdown'.drawdown = Zero
        /\ drawdown'.duration = 0
        /\ drawdown'.equity_range.high = Last(observed').equity
        /\ drawdown'.equity_range.low = drawdown.equity_range.low
        /\ drawdown'.start_timestamp = drawdown.start_timestamp]_vars

\* An episode that lasted has just been closed: the returned Drawdown holds its
\* duration and the live one is reset at the new peak.
C12_Witness ==
    /\ returned # None
    /\ returned[1].duration > 0
    /\ returned[1].start_timestamp > Now
    /\ drawdown.duration = 0
    /\ drawdown.equity_range.high = Last(observed).equity

\* C13: during an active drawdown, an observation whose equity equals
\* equity_range.high does not end the episode: update returns None, the
\* drawdown value, the equity range and the start are unchanged, and only the
\* duration moves, to the time elapsed since the start.
C13_TieContinuesEpisode ==
    [][(/\ UpdateStep
        /\ Active(drawdown)
        /\ Last(observed').equity = drawdown.equity_range.high) =>
        /\ returned' = None
        /\ drawdown'.drawdown = drawdown.drawdown
        /\ drawdown'.equity_range = drawdown.equity_range
        /\ drawdown'.start_timestamp = drawdown.start_timestamp
        /\ drawdown'.duration = Last(observed').timestamp - drawdown.start_timestamp
        /\ drawdown'.duration >= drawdown.duration]_vars

\* The last observation tied the peak of an episode that is still active, some
\* time after its start.
C13_Witness ==
    /\ Active(drawdown)
    /\ Len(observed) >= 2
    /\ Last(observed).equity = drawdown.equity_range.high
    /\ returned = None
    /\ drawdown.duration > 0

\* The equities observed so far, and the whole equity curve from
\* starting_equity on.
ObservedEquities == [i \in 1..Len(observed) |-> observed[i].equity]

EquityCurve == <<starting_equity>> \o ObservedEquities

StrictlyIncreasing(seq) == \A i \in 1..(Len(seq) - 1) : F64Gt(seq[i + 1], seq[i])

NonDecreasing(seq) == \A i \in 1..(Len(seq) - 1) : ~F64Gt(seq[i], seq[i + 1])

\* No update has returned a completed episode and both aggregators are in
\* their initial zero state.
NoEpisodeYet ==
    /\ returned = None
    /\ submitted = <<>>
    /\ max_drawdown = MaxDrawdownInit
    /\ avg_drawdown = AvgDrawdownInit

RangeDecline(self) ==
    F64Div(F64Sub(self.equity_range.high, self.equity_range.low), self.equity_range.high)

\* C15: after init with a positive starting equity, after every update the
\* live drawdown value is non-positive and its magnitude does not exceed
\* (high - low) / high of the tracked equity range.
C15_DrawdownWithinRange ==
    observed # <<>> =>
        /\ ~F64Gt(drawdown.drawdown, Zero)
        /\ ~F64Gt(F64Abs(drawdown.drawdown), RangeDecline(drawdown))

\* An active episode whose trough fell further after it opened, and whose
\* value is the whole decline of the range.
C15_Witness ==
    /\ Active(drawdown)
    /\ Len(observed) >= 2
    /\ F64Gt(observed[Len(observed) - 1].equity, Last(observed).equity)
    /\ Last(observed).equity = drawdown.equity_range.low
    /\ F64Gt(drawdown.equity_range.high, observed[Len(observed) - 1].equity)
    /\ F64Abs(drawdown.drawdown) = RangeDecline(drawdown)

\* This step is a MaxDrawdown::update.
MaxStep == Len(submitted') = Len(submitted) + 1

Magnitude(d) == F64Abs(d.drawdown)

\* The index of the earliest of the submitted episodes of largest magnitude.
EarliestLargest ==
    CHOOSE i \in 1..Len(submitted) :
        /\ \A j \in 1..Len(submitted) : ~F64Gt(Magnitude(submitted[j]), Magnitude(submitted[i]))
        /\ \A j \in 1..(i - 1) : F64Gt(Magnitude(submitted[i]), Magnitude(submitted[j]))

\* C16: after any sequence of MaxDrawdown::update calls with completed
\* episodes, the stored Drawdown is the submitted episode of largest absolute
\* drawdown, the earliest one among those of equal largest magnitude; and a
\* single update replaces the stored value if and only if the magnitude of the
\* candidate is strictly greater.
C16_StoresEarliestLargest ==
    /\ [](submitted # <<>> => max_drawdown.drawdown = submitted[EarliestLargest])
    /\ [][MaxStep =>
            IF F64Gt(Magnitude(Last(submitted')), Magnitude(max_drawdown.drawdown))
            THEN max_drawdown'.drawdown = Last(submitted')
            ELSE max_drawdown' = max_drawdown]_vars

\* The stored episode replaced a smaller one and was then tied by a different
\* episode of the same magnitude, which did not replace it.
C16_Witness ==
    /\ Len(submitted) = 3
    /\ F64Gt(Magnitude(submitted[2]), Magnitude(submitted[1]))
    /\ Magnitude(submitted[3]) = Magnitude(submitted[2])
    /\ submitted[3] # submitted[2]
    /\ max_drawdown.drawdown = submitted[2]

\* C17: MaxDrawdown::update with an episode whose magnitude is equal to or
\* smaller than the stored one, the stored episode itself included, leaves
\* every stored field unchanged.
C17_ResubmissionChangesNothing ==
    [][(/\ MaxStep
        /\ \/ Last(submitted') = max_drawdown.drawdown
           \/ ~F64Gt(Magnitude(Last(submitted')), Magnitude(max_drawdown.drawdown))) =>
        /\ max_drawdown'.drawdown.equity_range = max_drawdown.drawdown.equity_range
        /\ max_drawdown'.drawdown.drawdown = max_drawdown.drawdown.drawdown
        /\ max_drawdown'.drawdown.start_timestamp = max_drawdown.drawdown.start_timestamp
        /\ max_drawdown'.drawdown.duration = max_drawdown.drawdown.duration]_vars

\* The stored episode was submitted a second time, then one of equal magnitude
\* with another duration, then a smaller one, and is still the stored one.
C17_Witness ==
    /\ Len(submitted) = 4
    /\ submitted[2] = submitted[1]
    /\ Magnitude(submitted[3]) = Magnitude(submitted[1])
    /\ submitted[3].duration # submitted[1].duration
    /\ F64Gt(Magnitude(submitted[1]), Magnitude(submitted[4]))
    /\ max_drawdown.drawdown = submitted[1]

\* This step is an AvgDrawdown::update.
AvgStep == sums'.count = sums.count + 1

\* C18: after n AvgDrawdown::update calls from init, count is n and
\* mean_drawdown is the arithmetic mean of the n submitted drawdown values
\* (exactly, the values being exact here); each call moves the mean by
\* (x_n - mean_{n-1}) / n.
C18_MeanDrawdownIsArithmeticMean ==
    /\ [](/\ avg_drawdown.count = sums.count
          /\ sums.count > 0 =>
                avg_drawdown.mean_drawdown = F64Div(sums.drawdown, F64(sums.count, 1)))
    /\ [][AvgStep =>
            LET x == F64Sub(sums'.drawdown, sums.drawdown)
            IN  F64Sub(avg_drawdown'.mean_drawdown, avg_drawdown.mean_drawdown) =
                    F64Div(F64Sub(x, avg_drawdown.mean_drawdown), F64(sums'.count, 1))]_vars

\* Three episodes of two different values have been averaged: -1/2, -1/2 and
\* -2/3 in some order give -5/9.
C18_Witness ==
    /\ avg_drawdown.count = 3
    /\ sums.drawdown = F64(-5, 3)
    /\ avg_drawdown.mean_drawdown = F64(-5, 9)

\* C19: after n AvgDrawdown::update calls from init with non-negative
\* durations, mean_duration is within one millisecond of the arithmetic mean
\* of the n durations: |mean_duration - sum / n| <= 1, that is
\* |n * mean_duration - sum| <= n.
C19_MeanDurationWithinOneMs ==
    sums.count > 0 =>
        Abs(sums.count * avg_drawdown.mean_duration - sums.duration) <= sums.count

\* C20: after an update that leaves the live Drawdown in an active episode,
\* duration is the timestamp of that observation minus start_timestamp; it is
\* zero on the observation that opens the episode, and zero whenever the
\* Drawdown is waiting for a peak.
C20_DurationSinceStart ==
    /\ [](observed # <<>> =>
            IF Active(drawdown)
            THEN drawdown.duration = Last(observed).timestamp - drawdown.start_timestamp
            ELSE drawdown.duration = 0)
    /\ [][UpdateStep /\ ~Active(drawdown) /\ Active(drawdown') =>
            drawdown'.duration = 0]_vars

\* An episode that opened after the construction and has lasted since.
C20_Witness ==
    /\ Active(drawdown)
    /\ drawdown.start_timestamp > Now
    /\ drawdown.duration > 0
    /\ Last(observed).timestamp = drawdown.start_timestamp + drawdown.duration

\* C21: in every state of a Drawdown reachable from init(starting_equity) by
\* update calls, equity_range.high >= equity_range.low, the states where high
\* or low is written directly included.
C21_HighNotBelowLow == ~F64Gt(drawdown.equity_range.low, drawdown.equity_range.high)

\* Each arm that writes a bound directly has been taken: the peak was raised
\* while waiting, an episode opened below it and was closed above it, and the
\* trough of that episode is still the low of the range.
C21_Witness ==
    /\ Len(observed) >= 3
    /\ F64Gt(observed[1].equity, starting_equity)
    /\ returned # None
    /\ drawdown.equity_range.high = Last(observed).equity
    /\ F64Gt(drawdown.equity_range.high, drawdown.equity_range.low)
    /\ F64Gt(observed[1].equity, drawdown.equity_range.low)

\* C22 as stated: for the activated Range of the live Drawdown,
\* Range::calculate returns low - high, a non-positive delta, and the live
\* drawdown of an active episode is the negation of that result divided by
\* high. Violated as soon as low is below high: the result is high - low.
C22_RangeCalculateIsLowMinusHigh ==
    drawdown.equity_range.activated =>
        /\ RangeCalculate(drawdown.equity_range) =
               F64Sub(drawdown.equity_range.low, drawdown.equity_range.high)
        /\ ~F64Gt(RangeCalculate(drawdown.equity_range), Zero)
        /\ Active(drawdown) =>
               drawdown.drawdown =
                   F64Div(F64Neg(RangeCalculate(drawdown.equity_range)),
                          drawdown.equity_range.high)

\* C22, amended: Range::calculate returns high - low, a non-negative delta,
\* and the live drawdown of an active episode is the negation of that result
\* divided by high, that is (low - high) / high.
C22_RangeCalculateIsHighMinusLow ==
    drawdown.equity_range.activated =>
        /\ RangeCalculate(drawdown.equity_range) =
               F64Sub(drawdown.equity_range.high, drawdown.equity_range.low)
        /\ ~F64Gt(Zero, RangeCalculate(drawdown.equity_range))
        /\ Active(drawdown) =>
               /\ drawdown.drawdown =
                      F64Div(F64Neg(RangeCalculate(drawdown.equity_range)),
                             drawdown.equity_range.high)
               /\ drawdown.drawdown =
                      F64Div(F64Sub(drawdown.equity_range.low, drawdown.equity_range.high),
                             drawdown.equity_range.high)

\* The first steps of tests::drawdown_update in small: a peak above the
\* starting equity, then a fall back to it, gives a negative drawdown.
C22_Witness ==
    /\ starting_equity = F64(2, 1)
    /\ Len(observed) = 2
    /\ observed[1].equity = F64(3, 1)
    /\ observed[2].equity = F64(2, 1)
    /\ RangeCalculate(drawdown.equity_range) = F64(1, 1)
    /\ drawdown.drawdown = F64(-1, 3)

\* ------------------------------------------------------------------------
\* Further properties of Engine::run

PoisonLine == "Mutex poisoned"

\* The steps of run() after the loop, still to be taken.
EndOfRun == {"lock", "summary", "return"}

\* C23: once a Trader has failed inside a Portfolio call and poisoned the
\* Mutex, the end of run() is neither blocked nor aborted by it: the Mutex is
\* not left locked by the failed Trader, the lock step is enabled as soon as no
\* live Trader holds the Mutex and then warns and takes the guard, the query
\* for closed Positions and the return are enabled in their turn, and run()
\* returns with the query made.
C23_PoisonedLockRecovered ==
    /\ [](poisoned /\ enginePc \in EndOfRun =>
            /\ locked /\ enginePc = "lock" =>
                    \E t \in traders : traderPc[t] \in InCritical
            /\ ~locked /\ enginePc = "lock" => ENABLED EngineLock
            /\ enginePc = "summary" => ENABLED EngineSummary
            /\ enginePc = "return" => ENABLED EngineReturn)
    /\ [][poisoned /\ enginePc \in EndOfRun /\ enginePc' # enginePc =>
            /\ enginePc' # "panicked"
            /\ Rank(enginePc') = Rank(enginePc) + 1
            /\ enginePc = "lock" => PoisonLine \in log' /\ locked']_vars
    /\ [](poisoned /\ enginePc = "done" =>
            statistics.summary # None \/ NoSummaryLine \in log)

\* A Trader failed inside a Portfolio call, and run() has warned about the
\* poisoned Mutex, made its query and returned.
C23_Witness ==
    /\ poisoned
    /\ \E t \in traders : traderPc[t] = "failed"
    /\ enginePc = "done"
    /\ PoisonLine \in log
    /\ ~locked

\* This step is the failure of Trader t.
FailStep(t) == traderPc[t] # "failed" /\ traderPc'[t] = "failed"

SomeTraderFailed == \E t \in traders : traderPc[t] = "failed"

\* Every Trader task has ended, by finishing or by failing.
EveryTraderEnded == \A t \in traders : traderPc[t] \in {"finished", "failed"}

\* C24: the failure of one Trader is local to it. The step in which it fails
\* changes no other Trader and leaves the Mutex free; afterwards every Trader
\* still running has a step enabled, or waits for the Mutex while a live holder
\* (another Trader inside a Portfolio call, or run() at its end) has it; and
\* once every Trader has finished or failed, the 'all Traders stopped' arm of
\* the loop is enabled and takes run() to the Portfolio lock.
C24_FailureIsLocal ==
    /\ [][\A t \in traders : FailStep(t) =>
            /\ \A u \in TraderIds \ {t} : traderPc'[u] = traderPc[u]
            /\ ~locked'
            /\ enginePc' = enginePc]_vars
    /\ [](SomeTraderFailed =>
            /\ \A u \in traders : Running(u) =>
                    \/ ENABLED TraderNext(u)
                    \/ /\ locked
                       /\ \/ \E v \in traders \ {u} : traderPc[v] \in InCritical
                          \/ enginePc \in {"summary", "return"}
            /\ enginePc = "select" /\ EveryTraderEnded => ENABLED EngineTradersStopped)
    /\ [][(/\ SomeTraderFailed
           /\ enginePc = "select"
           /\ enginePc' # enginePc
           /\ received' = received) => EveryTraderEnded /\ enginePc' = "lock"]_vars

\* One Trader failed, its sibling went on to close a Position and finish, and
\* run() left the loop through the 'all Traders stopped' arm.
C24_Witness ==
    /\ \E t, u \in traders : traderPc[t] = "failed" /\ traderPc[u] = "finished"
    /\ exited > 0
    /\ poisoned
    /\ received = <<>>
    /\ enginePc = "lock"

\* ------------------------------------------------------------------------
\* Further properties of the drawdown metrics

\* The greatest value of a non-empty sequence of f64 values.
Greatest(seq) ==
    CHOOSE x \in {seq[i] : i \in 1..Len(seq)} :
        \A i \in 1..Len(seq) : ~F64Gt(seq[i], x)

\* C25: in every state of a Drawdown reachable from init(starting_equity),
\* equity_range.high is the maximum of starting_equity and all equities
\* observed so far; no update decreases it.
C25_HighIsRunningMaximum ==
    /\ [](drawdown.equity_range.high = Greatest(EquityCurve))
    /\ [][~F64Gt(drawdown.equity_range.high, drawdown'.equity_range.high)]_vars

\* The peak was raised while waiting and again by the close of an episode,
\* and the latest observation is below it.
C25_Witness ==
    /\ Len(observed) = 4
    /\ F64Gt(observed[1].equity, starting_equity)
    /\ F64Gt(observed[1].equity, observed[2].equity)
    /\ F64Gt(observed[3].equity, observed[1].equity)
    /\ F64Gt(observed[3].equity, observed[4].equity)
    /\ drawdown.equity_range.high = observed[3].equity

\* The live Drawdown after the first k observations, replayed from init.
RECURSIVE LiveAfter(_)
LiveAfter(k) ==
    IF k = 0 THEN DrawdownInit(starting_equity)
    ELSE DrawdownUpdate(LiveAfter(k - 1), observed[k]).self

\* C26: the duration of a completed episode runs from start_timestamp to the
\* last observation at or below the peak, which is the one before the
\* observation that ended it; an episode opened by one observation and closed
\* by the next has duration zero, whatever their timestamps.
C26_DurationToLastBelowPeak ==
    returned # None =>
        LET n == Len(observed) IN
        /\ n >= 2
        /\ ~F64Gt(observed[n - 1].equity, returned[1].equity_range.high)
        /\ F64Gt(observed[n].equity, returned[1].equity_range.high)
        /\ returned[1].duration =
               observed[n - 1].timestamp - returned[1].start_timestamp
        /\ ~Active(LiveAfter(n - 2)) => returned[1].duration = 0

\* An episode was opened, continued later and closed later still: its
\* duration is positive and ends before the closing observation.
C26_Witness ==
    /\ returned # None
    /\ returned[1].duration > 0
    /\ Last(observed).timestamp > returned[1].start_timestamp + returned[1].duration

\* C27: every completed episode that update returns, from init with a
\* positive equity on, has a strictly negative drawdown and an equity range
\* with low strictly below high, and so has every episode given to the
\* aggregators; a Drawdown of zero magnitude is never returned.
C27_EpisodesStrictlyNegative ==
    /\ [](returned # None =>
            /\ F64Gt(Zero, returned[1].drawdown)
            /\ F64Gt(returned[1].equity_range.high, returned[1].equity_range.low))
    /\ [](\A i \in 1..Len(submitted) :
            /\ F64Gt(Zero, submitted[i].drawdown)
            /\ F64Gt(submitted[i].equity_range.high, submitted[i].equity_range.low))
    /\ [][UpdateStep /\ drawdown.drawdown = Zero => returned' = None]_vars

\* The first observation repeated the starting equity, which opened nothing;
\* a fall and a new peak then completed an episode.
C27_Witness ==
    /\ Len(observed) >= 3
    /\ observed[1].equity = starting_equity
    /\ returned # None
    /\ submitted = <<returned[1]>>
    /\ F64Gt(Zero, returned[1].drawdown)

\* ------------------------------------------------------------------------
\* Further properties of the command inbox

\* seq is a prefix of the sequence longer.
IsPrefix(seq, longer) ==
    Len(seq) <= Len(longer) /\ \A i \in 1..Len(seq) : seq[i] = longer[i]

\* C28: in any run recv() returns to the Engine at most once: the step that
\* takes its result leaves the loop, for the Portfolio lock or by panicking,
\* and from then on the commands still buffered are never taken from the
\* channel nor delivered to a Trader.
C28_AtMostOneCommandTaken ==
    /\ [](Len(received) <= 1)
    /\ [][Len(received') > Len(received) =>
            /\ received = <<>>
            /\ enginePc = "select"
            /\ enginePc' \in {"lock", "panicked"}]_vars
    /\ [][received # <<>> =>
            /\ IsPrefix(command_rx, command_rx')
            /\ delivered' = delivered
            /\ enginePc' # "select"]_vars

\* run() has returned after a Terminate, and a command that was queued behind
\* it is still in the channel.
C28_Witness ==
    /\ enginePc = "done"
    /\ \E c \in TerminateCommands : received = <<Some(c)>>
    /\ command_rx # <<>>
    /\ \A t \in TraderIds : delivered[t] = {}

====
